---- MODULE Spec2Model ----
(***************************************************************************)
(* State core of the Wan2GP timeline editor (src/plugin.py): the Project   *)
(* snapshot held in the project_json textbox, the command handler on_cmd,  *)
(* the upload handler on_upload and the preview resolver.                  *)
(*                                                                         *)
(* Encoding of Python values:                                              *)
(*   - a str is a sequence of tokens: a track id is its characters         *)
(*     ("V1" is <<"V","1">>), a clip id is its prefix, its random part and *)
(*     one "_b" token per suffix appended by RAZOR_CUT, so f"{id}_b" is    *)
(*     Append(id, "_b"); the empty string is <<>>;                         *)
(*   - None is the distinguished value None, equal to no str of the model; *)
(*   - Optional[X] results of find_media / find_clip are <<>> or <<x>>;    *)
(*   - a command is a record holding every key on_cmd reads; an absent int *)
(*     key holds 0 and an absent id key holds None, the defaults cmd.get   *)
(*     supplies, and an absent track_id holds Absent.                      *)
(***************************************************************************)
EXTENDS Integers, Sequences, FiniteSets, TLC

VARIABLES
    project_json,   \* value of the project_json textbox (a serialized Project)
    last_cmd,       \* raw_cmd of the latest handler invocation (<<>> before any)
    steps,          \* number of handler invocations and UI events so far
    inflight,       \* events sent to the backend and not yet answered, in order
    serial,         \* the Project the commands sent so far yield, applied one after another
    playing,        \* the UI's playback flag
    activeTool,     \* ui.activeTool
    raised,         \* whether the latest handler invocation raised
    created,        \* the ids of the clips in the order the handlers created them
    preview,        \* the preview a handler returned last (<<>> is the empty text)
    stopped,        \* <<f>> since UI playback stopped at frame f, <<>> before any
                    \* playback and while it plays
    backend_f       \* playhead_f of the Project a handler returned last

uivars == <<inflight, serial, playing, activeTool, stopped>>
vars == <<project_json, last_cmd, steps, inflight, serial, playing, activeTool,
          raised, created, preview, stopped, backend_f>>

----------------------------------------------------------------------------
\* Bounds of the model
MaxSteps == 4
MaxEvents == 7
MaxClips == 3
MaxMedia == 2

\* Python values, and the null of JSON
None == <<"None">>
Null == <<"null">>

\* the outcome of a call that raises
Raises == <<"raise">>
Absent == <<"Absent">>

Max(a, b) == IF a >= b THEN a ELSE b
Min(a, b) == IF a <= b THEN a ELSE b
MinOf(S) == CHOOSE x \in S : \A y \in S : x <= y

V1 == <<"V", "1">>
V2 == <<"V", "2">>
A1 == <<"A", "1">>
X1 == <<"X", "1">>

startswith(s, ch) == Len(s) > 0 /\ s[1] = ch

----------------------------------------------------------------------------
\* Project model

default_project ==
    [fps |-> 25, px_per_frame |-> 2, playhead_f |-> 0,
     selected_clip_id |-> None, media |-> <<>>, clips |-> <<>>]

\* The JSON text is held as the object it denotes: numbers and strings as
\* they are, null as Null. json.dumps(asdict(p)) writes None as null.
dumps_project(p) ==
    [fps |-> p.fps, px_per_frame |-> p.px_per_frame,
     playhead_f |-> p.playhead_f,
     selected_clip_id |-> IF p.selected_clip_id = None THEN Null
                          ELSE p.selected_clip_id,
     media |-> p.media, clips |-> p.clips]

\* loads_project that hands the JSON value of selected_clip_id on as it is
loads_project_KeepsNull(raw) ==
    [fps |-> raw.fps, px_per_frame |-> raw.px_per_frame,
     playhead_f |-> raw.playhead_f, selected_clip_id |-> raw.selected_clip_id,
     media |-> raw.media, clips |-> raw.clips]

\* json.loads reads null as None; float() and int() leave the numbers of a
\* dumped Project as they are
loads_project(raw) ==
    [fps |-> raw.fps, px_per_frame |-> raw.px_per_frame,
     playhead_f |-> raw.playhead_f,
     selected_clip_id |-> IF raw.selected_clip_id = Null THEN None
                          ELSE raw.selected_clip_id,
     media |-> raw.media, clips |-> raw.clips]

find_media(p, media_id) ==
    LET idx == {i \in DOMAIN p.media : p.media[i].id = media_id}
    IN  IF idx = {} THEN <<>> ELSE <<p.media[MinOf(idx)]>>

find_clip(p, clip_id) ==
    IF clip_id = None \/ clip_id = <<>> THEN <<>>
    ELSE LET idx == {i \in DOMAIN p.clips : p.clips[i].id = clip_id}
         IN  IF idx = {} THEN <<>> ELSE <<p.clips[MinOf(idx)]>>

clip_duration_frames(c) == Max(1, c.out_f - c.in_f)

clip_covers_frame(c, frame) ==
    LET dur == clip_duration_frames(c)
    IN  c.start_f <= frame /\ frame < c.start_f + dur

\* int(s) for a str of decimal digits; <<>> when int() raises
DigitValue(ch) ==
    CASE ch = "0" -> 0 [] ch = "1" -> 1 [] ch = "2" -> 2 [] ch = "3" -> 3
      [] ch = "4" -> 4 [] ch = "5" -> 5 [] ch = "6" -> 6 [] ch = "7" -> 7
      [] ch = "8" -> 8 [] ch = "9" -> 9 [] OTHER -> -1

RECURSIVE DigitsValue(_)
DigitsValue(s) ==
    IF s = <<>> THEN 0
    ELSE 10 * DigitsValue(SubSeq(s, 1, Len(s) - 1)) + DigitValue(s[Len(s)])

int_str(s) ==
    IF s = <<>> \/ \E i \in DOMAIN s : DigitValue(s[i]) < 0
    THEN <<>>
    ELSE <<DigitsValue(s)>>

track_priority(track_id) ==
    IF startswith(track_id, "V")
    THEN LET n == int_str(SubSeq(track_id, 2, Len(track_id)))
         IN  IF n = <<>> THEN 0 ELSE n[1]
    ELSE -999

\* the clips of kind video or image under the playhead, in list order
preview_candidates(p) ==
    SelectSeq(p.clips, LAMBDA c : c.kind \in {"video", "image"}
                                   /\ clip_covers_frame(c, p.playhead_f))

\* preview_top without the sort: the first candidate
preview_top_First(p) ==
    LET cand == preview_candidates(p)
    IN  cand[1]

\* candidates.sort(key=track_priority, reverse=True)[0]: the sort is stable,
\* so the top is the earliest candidate of the greatest priority
preview_top(p) ==
    LET cand == preview_candidates(p)
        key == [i \in DOMAIN cand |-> track_priority(cand[i].track_id)]
        best == {i \in DOMAIN cand : \A j \in DOMAIN cand : key[j] <= key[i]}
    IN  cand[MinOf(best)]

\* get_preview_image asking for the frame at the offset into the clip
get_preview_image_NoIn(p, decode_ok) ==
    IF preview_candidates(p) = <<>> THEN <<>>
    ELSE LET top == preview_top(p)
             m == find_media(p, top.media_id)
         IN  IF m = <<>> THEN <<>>
             ELSE IF ~decode_ok THEN <<>>
             ELSE IF top.kind = "image" THEN <<"image", m[1].id>>
             ELSE <<"video", m[1].id, p.playhead_f - top.start_f>>

\* get_preview_image without the try / except around the decoding
get_preview_image_Propagates(p, decode_ok) ==
    IF preview_candidates(p) = <<>> THEN <<>>
    ELSE LET top == preview_top(p)
             m == find_media(p, top.media_id)
         IN  IF m = <<>> THEN <<>>
             ELSE IF ~decode_ok THEN Raises
             ELSE IF top.kind = "image" THEN <<"image", m[1].id>>
             ELSE <<"video", m[1].id, top.in_f + (p.playhead_f - top.start_f)>>

\* The image handed back: <<>> is None, <<"image", path>> an opened image,
\* <<"video", path, n>> frame n of a video; decode_ok is the outcome of the
\* decoding collaborator (Image.open / get_video_frame). A media item's path
\* is identified by its id.
get_preview_image(p, decode_ok) ==
    IF preview_candidates(p) = <<>> THEN <<>>
    ELSE LET top == preview_top(p)
             m == find_media(p, top.media_id)
         IN  IF m = <<>> THEN <<>>
             ELSE IF ~decode_ok THEN <<>>
             ELSE IF top.kind = "image" THEN <<"image", m[1].id>>
             ELSE <<"video", m[1].id, top.in_f + (p.playhead_f - top.start_f)>>

compute_preview_uri(p, decode_ok) ==
    LET img == get_preview_image(p, decode_ok)
    IN  IF img = Raises THEN Raises
        ELSE IF img = <<>> THEN <<>>
        ELSE <<"data:image/png">> \o img

----------------------------------------------------------------------------
\* on_cmd, one operator per branch; each maps the loaded Project to the
\* Project that is dumped

get(v, default) == IF v = Absent THEN default ELSE v

\* CmdSetPlayhead without the clamp to 0
CmdSetPlayhead_NoClamp(p, cmd) ==
    [p EXCEPT !.playhead_f = cmd.frame]

CmdSetPlayhead(p, cmd) ==
    [p EXCEPT !.playhead_f = Max(0, cmd.frame)]

CmdSelectClip(p, cmd) ==
    [p EXCEPT !.selected_clip_id = cmd.clip_id]

\* CmdAddClip without the check that media_id resolves
CmdAddClip_Unresolved(p, cmd, clip_id) ==
    LET track_id == get(cmd.track_id, V1)
        m == find_media(p, cmd.media_id)
        kind == IF m = <<>> THEN "video" ELSE m[1].kind
        dur_f == IF m # <<>> /\ m[1].frames # <<>>
                 THEN IF kind = "video"
                      THEN Min(Max(1, m[1].frames[1]), p.fps * 5)
                      ELSE Max(1, m[1].frames[1])
                 ELSE p.fps * 2
        c == [id |-> clip_id, media_id |-> cmd.media_id, track_id |-> track_id,
              start_f |-> Max(0, cmd.start_f), in_f |-> 0, out_f |-> dur_f,
              kind |-> kind]
    IN  IF startswith(track_id, "A") /\ kind # "audio" THEN p
        ELSE IF startswith(track_id, "V") /\ kind = "audio" THEN p
        ELSE [p EXCEPT !.clips = Append(@, c), !.selected_clip_id = clip_id]

\* CmdAddClip without the test of the media's kind against the track
CmdAddClip_NoKindCheck(p, cmd, clip_id) ==
    LET media_id == cmd.media_id
        track_id == get(cmd.track_id, V1)
        start_f == Max(0, cmd.start_f)
        m == find_media(p, media_id)
    IN  IF m = <<>> THEN p
        ELSE LET dur_f ==
                     IF m[1].frames # <<>>
                     THEN IF m[1].kind = "video"
                          THEN Min(Max(1, m[1].frames[1]), p.fps * 5)
                          ELSE Max(1, m[1].frames[1])
                     ELSE p.fps * 2
                 c == [id |-> clip_id, media_id |-> m[1].id, track_id |-> track_id,
                       start_f |-> start_f, in_f |-> 0, out_f |-> dur_f,
                       kind |-> m[1].kind]
             IN  [p EXCEPT !.clips = Append(@, c), !.selected_clip_id = clip_id]

\* CmdAddClip without the 5 second cap on a video's frame count
CmdAddClip_NoCap(p, cmd, clip_id) ==
    LET media_id == cmd.media_id
        track_id == get(cmd.track_id, V1)
        start_f == Max(0, cmd.start_f)
        m == find_media(p, media_id)
    IN  IF m = <<>> THEN p
        ELSE IF startswith(track_id, "A") /\ m[1].kind # "audio" THEN p
        ELSE IF startswith(track_id, "V") /\ m[1].kind = "audio" THEN p
        ELSE LET dur_f ==
                     IF m[1].frames # <<>>
                     THEN Max(1, m[1].frames[1])
                     ELSE p.fps * 2
                 c == [id |-> clip_id, media_id |-> m[1].id, track_id |-> track_id,
                       start_f |-> start_f, in_f |-> 0, out_f |-> dur_f,
                       kind |-> m[1].kind]
             IN  [p EXCEPT !.clips = Append(@, c), !.selected_clip_id = clip_id]

\* CmdAddClip with the 5 second cap applied to media of every kind
CmdAddClip_CapsAll(p, cmd, clip_id) ==
    LET media_id == cmd.media_id
        track_id == get(cmd.track_id, V1)
        start_f == Max(0, cmd.start_f)
        m == find_media(p, media_id)
    IN  IF m = <<>> THEN p
        ELSE IF startswith(track_id, "A") /\ m[1].kind # "audio" THEN p
        ELSE IF startswith(track_id, "V") /\ m[1].kind = "audio" THEN p
        ELSE LET dur_f ==
                     IF m[1].frames # <<>>
                     THEN Min(Max(1, m[1].frames[1]), p.fps * 5)
                     ELSE p.fps * 2
                 c == [id |-> clip_id, media_id |-> m[1].id, track_id |-> track_id,
                       start_f |-> start_f, in_f |-> 0, out_f |-> dur_f,
                       kind |-> m[1].kind]
             IN  [p EXCEPT !.clips = Append(@, c), !.selected_clip_id = clip_id]

\* CmdAddClip that inserts the new clip at the front of the list
CmdAddClip_Prepends(p, cmd, clip_id) ==
    LET media_id == cmd.media_id
        track_id == get(cmd.track_id, V1)
        start_f == Max(0, cmd.start_f)
        m == find_media(p, media_id)
    IN  IF m = <<>> THEN p
        ELSE IF startswith(track_id, "A") /\ m[1].kind # "audio" THEN p
        ELSE IF startswith(track_id, "V") /\ m[1].kind = "audio" THEN p
        ELSE LET dur_f ==
                     IF m[1].frames # <<>>
                     THEN IF m[1].kind = "video"
                          THEN Min(Max(1, m[1].frames[1]), p.fps * 5)
                          ELSE Max(1, m[1].frames[1])
                     ELSE p.fps * 2
                 c == [id |-> clip_id, media_id |-> m[1].id, track_id |-> track_id,
                       start_f |-> start_f, in_f |-> 0, out_f |-> dur_f,
                       kind |-> m[1].kind]
             IN  [p EXCEPT !.clips = <<c>> \o @, !.selected_clip_id = clip_id]

\* clip_id is the value of f"c_{abs(hash(os.urandom(8)))}"
CmdAddClip(p, cmd, clip_id) ==
    LET media_id == cmd.media_id
        track_id == get(cmd.track_id, V1)
        start_f == Max(0, cmd.start_f)
        m == find_media(p, media_id)
    IN  IF m = <<>> THEN p
        ELSE IF startswith(track_id, "A") /\ m[1].kind # "audio" THEN p
        ELSE IF startswith(track_id, "V") /\ m[1].kind = "audio" THEN p
        ELSE LET dur_f ==
                     IF m[1].frames # <<>>
                     THEN IF m[1].kind = "video"
                          THEN Min(Max(1, m[1].frames[1]), p.fps * 5)
                          ELSE Max(1, m[1].frames[1])
                     ELSE p.fps * 2
                 c == [id |-> clip_id, media_id |-> m[1].id, track_id |-> track_id,
                       start_f |-> start_f, in_f |-> 0, out_f |-> dur_f,
                       kind |-> m[1].kind]
             IN  [p EXCEPT !.clips = Append(@, c), !.selected_clip_id = clip_id]

\* CmdMoveClip that moves the first clip when no clip has the id
CmdMoveClip_FirstOnMiss(p, cmd) ==
    LET idx == {i \in DOMAIN p.clips : p.clips[i].id = cmd.clip_id}
        i == IF idx = {} THEN 1 ELSE MinOf(idx)
    IN  IF p.clips = <<>> THEN p
        ELSE [p EXCEPT !.clips[i].start_f = Max(0, cmd.start_f)]

\* CmdMoveClip that takes the new track whatever the clip's kind
CmdMoveClip_AnyTrack(p, cmd) ==
    LET cid == cmd.clip_id
        new_start == Max(0, cmd.start_f)
        new_track == get(cmd.track_id, None)
        idx == {i \in DOMAIN p.clips : p.clips[i].id = cid}
    IN  IF idx = {} THEN p
        ELSE LET i == MinOf(idx)
                 c == p.clips[i]
                 track ==
                     IF new_track # None /\ new_track # <<>>
                     THEN new_track
                     ELSE c.track_id
             IN  [p EXCEPT !.clips[i] = [c EXCEPT !.start_f = new_start,
                                                  !.track_id = track]]

\* CmdMoveClip without the clamp of start_f to 0
CmdMoveClip_NoClamp(p, cmd) ==
    LET cid == cmd.clip_id
        new_start == cmd.start_f
        new_track == get(cmd.track_id, None)
        idx == {i \in DOMAIN p.clips : p.clips[i].id = cid}
    IN  IF idx = {} THEN p
        ELSE LET i == MinOf(idx)
                 c == p.clips[i]
                 track ==
                     IF new_track # None /\ new_track # <<>>
                     THEN IF startswith(new_track, "V") /\ c.kind \in {"video", "image"}
                          THEN new_track
                          ELSE IF startswith(new_track, "A") /\ c.kind = "audio"
                          THEN new_track
                          ELSE c.track_id
                     ELSE c.track_id
             IN  [p EXCEPT !.clips[i] = [c EXCEPT !.start_f = new_start,
                                                  !.track_id = track]]

\* CmdMoveClip without the break: every clip of the id is moved
CmdMoveClip_MovesAll(p, cmd) ==
    LET cid == cmd.clip_id
        new_start == Max(0, cmd.start_f)
        new_track == get(cmd.track_id, None)
        track(c) ==
            IF new_track # None /\ new_track # <<>>
            THEN IF startswith(new_track, "V") /\ c.kind \in {"video", "image"}
                 THEN new_track
                 ELSE IF startswith(new_track, "A") /\ c.kind = "audio"
                 THEN new_track
                 ELSE c.track_id
            ELSE c.track_id
    IN  [p EXCEPT !.clips =
            [i \in DOMAIN p.clips |->
                IF p.clips[i].id = cid
                THEN [p.clips[i] EXCEPT !.start_f = new_start,
                                        !.track_id = track(p.clips[i])]
                ELSE p.clips[i]]]

CmdMoveClip(p, cmd) ==
    LET cid == cmd.clip_id
        new_start == Max(0, cmd.start_f)
        new_track == get(cmd.track_id, None)
        idx == {i \in DOMAIN p.clips : p.clips[i].id = cid}
    IN  IF idx = {} THEN p
        ELSE LET i == MinOf(idx)
                 c == p.clips[i]
                 track ==
                     IF new_track # None /\ new_track # <<>>
                     THEN IF startswith(new_track, "V") /\ c.kind \in {"video", "image"}
                          THEN new_track
                          ELSE IF startswith(new_track, "A") /\ c.kind = "audio"
                          THEN new_track
                          ELSE c.track_id
                     ELSE c.track_id
             IN  [p EXCEPT !.clips[i] = [c EXCEPT !.start_f = new_start,
                                                  !.track_id = track]]

\* CmdRazorCut whose second clip starts at the first clip's in_f
CmdRazorCut_SecondInUnshifted(p, cmd) ==
    LET target == find_clip(p, cmd.clip_id)
    IN  IF target = <<>> THEN p
        ELSE LET first == target[1]
                 cut_off == Max(1, Min(clip_duration_frames(first) - 1, cmd.cut_offset_f))
                 second == [first EXCEPT !.id = Append(first.id, "_b"),
                                         !.start_f = first.start_f + cut_off]
                 first2 == [first EXCEPT !.out_f = first.in_f + cut_off]
                 rest == SelectSeq(p.clips, LAMBDA c : c.id # first.id)
             IN  [p EXCEPT !.clips = Append(Append(rest, first2), second),
                           !.selected_clip_id = first.id]

\* CmdRazorCut that leaves the selection as it was
CmdRazorCut_KeepsSelection(p, cmd) ==
    LET target == find_clip(p, cmd.clip_id)
    IN  IF target = <<>> THEN p
        ELSE LET first == target[1]
                 cut_off == Max(1, Min(clip_duration_frames(first) - 1, cmd.cut_offset_f))
                 second == [first EXCEPT !.id = Append(first.id, "_b"),
                                         !.start_f = first.start_f + cut_off,
                                         !.in_f = first.in_f + cut_off]
                 first2 == [first EXCEPT !.out_f = first.in_f + cut_off]
                 rest == SelectSeq(p.clips, LAMBDA c : c.id # first.id)
             IN  [p EXCEPT !.clips = Append(Append(rest, first2), second)]

CmdRazorCut(p, cmd) ==
    LET cid == cmd.clip_id
        target == find_clip(p, cid)
    IN  IF target = <<>> THEN p
        ELSE LET dur == clip_duration_frames(target[1])
                 cut_off == Max(1, Min(dur - 1, cmd.cut_offset_f))
                 first == target[1]
                 second == [id |-> Append(first.id, "_b"),
                            media_id |-> first.media_id,
                            track_id |-> first.track_id,
                            start_f |-> first.start_f + cut_off,
                            in_f |-> first.in_f + cut_off,
                            out_f |-> first.out_f,
                            kind |-> first.kind]
                 first2 == [first EXCEPT !.out_f = first.in_f + cut_off]
                 rest == SelectSeq(p.clips, LAMBDA c : c.id # first.id)
             IN  [p EXCEPT !.clips = Append(Append(rest, first2), second),
                           !.selected_clip_id = first.id]

\* the statements of on_cmd that raise: cmd.get on a JSON value that is no
\* object, int() on a value that is no number, and track_id.startswith on a
\* null track_id, reached when media_id resolves
on_cmd_raises(raw_cmd, raw_proj) ==
    /\ raw_cmd # <<>>
    /\ raw_cmd[1].shape # "unparseable"
    /\ \/ raw_cmd[1].shape = "non_object"
       \/ /\ raw_cmd[1].shape = "bad_int"
          /\ raw_cmd[1].type \in {"SET_PLAYHEAD", "ADD_CLIP", "MOVE_CLIP", "RAZOR_CUT"}
       \/ /\ raw_cmd[1].type = "ADD_CLIP"
          /\ find_media(loads_project(raw_proj), raw_cmd[1].media_id) # <<>>
          /\ raw_cmd[1].track_id = None

\* on_cmd that clears the selection on a command it has no branch for
on_cmd_UnknownDeselects(raw_cmd, raw_proj, clip_id) ==
    LET p == loads_project(raw_proj)
    IN  IF raw_cmd = <<>> THEN raw_proj
        ELSE IF raw_cmd[1].shape = "unparseable" THEN raw_proj
        ELSE LET cmd == raw_cmd[1]
                 t == cmd.type
                 p2 == CASE t = "SET_PLAYHEAD" -> CmdSetPlayhead(p, cmd)
                         [] t = "SCREENSHOT" -> p
                         [] t = "SELECT_CLIP" -> CmdSelectClip(p, cmd)
                         [] t = "ADD_CLIP" -> CmdAddClip(p, cmd, clip_id)
                         [] t = "MOVE_CLIP" -> CmdMoveClip(p, cmd)
                         [] t = "RAZOR_CUT" -> CmdRazorCut(p, cmd)
                         [] OTHER -> [p EXCEPT !.selected_clip_id = None]
             IN  dumps_project(p2)

\* on_cmd that names the second clip of a cut with a drawn id
on_cmd_DrawnSecondId(raw_cmd, raw_proj, clip_id) ==
    LET p == loads_project(raw_proj)
    IN  IF raw_cmd = <<>> THEN raw_proj
        ELSE IF raw_cmd[1].shape = "unparseable" THEN raw_proj
        ELSE LET cmd == raw_cmd[1]
                 t == cmd.type
                 cut == CmdRazorCut(p, cmd)
                 p2 == CASE t = "SET_PLAYHEAD" -> CmdSetPlayhead(p, cmd)
                         [] t = "SCREENSHOT" -> p
                         [] t = "SELECT_CLIP" -> CmdSelectClip(p, cmd)
                         [] t = "ADD_CLIP" -> CmdAddClip(p, cmd, clip_id)
                         [] t = "MOVE_CLIP" -> CmdMoveClip(p, cmd)
                         [] t = "RAZOR_CUT" ->
                              IF find_clip(p, cmd.clip_id) = <<>> THEN p
                              ELSE [cut EXCEPT !.clips[Len(cut.clips)].id = clip_id]
                         [] OTHER -> p
             IN  dumps_project(p2)

\* raw_cmd is <<>> (the empty text) or <<cmd>>; the result is the new value
\* of project_json
on_cmd(raw_cmd, raw_proj, clip_id) ==
    LET p == loads_project(raw_proj)
    IN  IF raw_cmd = <<>> THEN raw_proj
        ELSE IF raw_cmd[1].shape = "unparseable" THEN raw_proj
        ELSE LET cmd == raw_cmd[1]
                 t == cmd.type
                 p2 == CASE t = "SET_PLAYHEAD" -> CmdSetPlayhead(p, cmd)
                         [] t = "SCREENSHOT" -> p
                         [] t = "SELECT_CLIP" -> CmdSelectClip(p, cmd)
                         [] t = "ADD_CLIP" -> CmdAddClip(p, cmd, clip_id)
                         [] t = "MOVE_CLIP" -> CmdMoveClip(p, cmd)
                         [] t = "RAZOR_CUT" -> CmdRazorCut(p, cmd)
                         [] OTHER -> p
             IN  dumps_project(p2)

\* the preview on_cmd returns beside the project
on_cmd_preview(raw_cmd, raw_proj, clip_id, decode_ok) ==
    IF raw_cmd = <<>>
    THEN compute_preview_uri(loads_project(raw_proj), decode_ok)
    ELSE compute_preview_uri(loads_project(on_cmd(raw_cmd, raw_proj, clip_id)), decode_ok)

\* round(num / den) as Python rounds a float: to nearest, ties to even
round_div(num, den) ==
    LET q == num \div den
        r == num % den
    IN  IF 2 * r < den THEN q
        ELSE IF 2 * r > den THEN q + 1
        ELSE IF q % 2 = 0 THEN q ELSE q + 1

\* The MediaItem on_upload builds for one file. f.id is what _uid() returns,
\* f.kind what _detect_kind returns and f.probe the outcome of the kind's
\* probe: <<>> when it raises or yields nothing, else <<n>> with n the frame
\* count of a video or the duration of an audio file in 1/100 s.
media_item(f, p) ==
    [id |-> f.id, kind |-> f.kind,
     frames |->
        CASE f.kind = "video" ->
                 IF f.probe # <<>> /\ f.probe[1] # 0 THEN f.probe ELSE <<>>
          [] f.kind = "image" ->
                 IF f.probe # <<>> THEN <<round_div(2 * p.fps, 1)>> ELSE <<>>
          [] f.kind = "audio" ->
                 IF f.probe # <<>> THEN <<round_div(f.probe[1] * p.fps, 100)>> ELSE <<>>]

\* on_upload: files is the sequence of uploaded files
\* on_upload that starts the media list anew
on_upload_Replaces(files, raw_proj) ==
    LET p == loads_project(raw_proj)
    IN  IF files = <<>> THEN raw_proj
        ELSE dumps_project(
                 [p EXCEPT !.media = [i \in DOMAIN files |-> media_item(files[i], p)]])

on_upload(files, raw_proj) ==
    LET p == loads_project(raw_proj)
    IN  IF files = <<>> THEN raw_proj
        ELSE dumps_project(
                 [p EXCEPT !.media = @ \o [i \in DOMAIN files |-> media_item(files[i], p)]])

on_upload_preview(files, raw_proj, decode_ok) ==
    compute_preview_uri(loads_project(on_upload(files, raw_proj)), decode_ok)

----------------------------------------------------------------------------
\* Inputs

FrameChoices == {-1, 2}
StartChoices == {-1, 2}
CutChoices == {-1, 60}
FpsChoices == {30}
UnknownTypes == {"FOO"}
Ghost == <<"c_", "0">>
AddTrackChoices == {V1, V2, A1, X1, None}
MoveTrackChoices == {V2, A1, X1, None}
ProbeChoices(kind) ==
    CASE kind = "video" -> {<<>>, <<1>>, <<200>>}
      [] kind = "image" -> {<<1>>}
      [] kind = "audio" -> {<<1>>, <<600>>}

\* An id no element of used has: what a generator of random or unique ids
\* returns; ids are opaque, so the first unused number stands for any
fresh_id(prefix, used) ==
    <<prefix, ToString(MinOf({n \in 1..(Cardinality(used) + 1) : <<prefix, ToString(n)>> \notin used}))>>

P == loads_project(project_json)
ids_of(seq) == {seq[i].id : i \in DOMAIN seq}
ClipIdChoices == ids_of(P.clips) \cup {None, Ghost}
TargetIdChoices == ids_of(P.clips) \cup {Ghost}
MediaIdChoices == ids_of(P.media) \cup {<<"id_", "0">>}

NoCmd ==
    [type |-> "", frame |-> 0, clip_id |-> None, media_id |-> None,
     track_id |-> Absent, start_f |-> 0, cut_offset_f |-> 0, fps |-> 0,
     shape |-> "object"]

\* The texts on_cmd does not read as a command: shape tells what json.loads
\* makes of the text ("unparseable": it raises; "non_object": a list, number,
\* string or null; "bad_int": an object whose number fields hold "abc")
MalformedChoices ==
    {[NoCmd EXCEPT !.shape = "unparseable"],
     [NoCmd EXCEPT !.shape = "non_object"],
     [NoCmd EXCEPT !.shape = "bad_int", !.type = "SET_PLAYHEAD"]}

\* the ids of the clips created so far, after on_cmd has handled raw_cmd
created_after(raw_cmd, raw_proj, clip_id, ids) ==
    LET p == loads_project(raw_proj)
        p2 == loads_project(on_cmd(raw_cmd, raw_proj, clip_id))
    IN  IF raw_cmd = <<>> THEN ids
        ELSE IF raw_cmd[1].type = "ADD_CLIP" /\ Len(p2.clips) = Len(p.clips) + 1
        THEN Append(ids, clip_id)
        ELSE IF raw_cmd[1].type = "RAZOR_CUT" /\ find_clip(p, raw_cmd[1].clip_id) # <<>>
        THEN Append(ids, Append(raw_cmd[1].clip_id, "_b"))
        ELSE ids

----------------------------------------------------------------------------
\* Actions: one invocation of a handler with the current project_json

Init ==
    /\ project_json = dumps_project(default_project)
    /\ last_cmd = <<>>
    /\ steps = 0
    /\ inflight = <<>>
    /\ serial = dumps_project(default_project)
    /\ playing = FALSE
    /\ stopped = <<>>
    /\ backend_f = default_project.playhead_f
    /\ activeTool = "selection"
    /\ raised = FALSE
    /\ created = <<>>
    /\ preview = <<>>

\* The outcomes of the decoding collaborator in a run whose preview would
\* be shown: it is called only when a clip with resolved media is selected
DecodeChoices(shown) == IF shown = <<>> THEN {TRUE} ELSE BOOLEAN

\* What the event binding does with one run of on_cmd: the outputs are
\* written when on_cmd returns and left as they are when it raises.
\* decode_ok is the outcome of the decoding collaborator in this run.
Answer(raw_cmd, raw_proj, clip_id) ==
    LET raw2 == on_cmd(raw_cmd, raw_proj, clip_id)
        shown == compute_preview_uri(loads_project(raw2), TRUE)
    IN  \E decode_ok \in DecodeChoices(shown) :
          LET prev == IF decode_ok THEN shown
                      ELSE compute_preview_uri(loads_project(raw2), FALSE)
          IN  IF on_cmd_raises(raw_cmd, raw_proj) \/ prev = Raises
              THEN /\ raised' = TRUE
                   /\ UNCHANGED <<project_json, created, preview, backend_f>>
              ELSE /\ raised' = FALSE
                   /\ project_json' = raw2
                   /\ backend_f' = loads_project(raw2).playhead_f
                   /\ created' = created_after(raw_cmd, raw_proj, clip_id, created)
                   /\ preview' = prev

\* What the event binding does with one run of on_upload
Uploaded(files, raw_proj) ==
    LET raw2 == on_upload(files, raw_proj)
        shown == compute_preview_uri(loads_project(raw2), TRUE)
    IN  \E decode_ok \in DecodeChoices(shown) :
          LET prev == IF decode_ok THEN shown
                      ELSE compute_preview_uri(loads_project(raw2), FALSE)
          IN  IF prev = Raises
              THEN /\ raised' = TRUE
                   /\ UNCHANGED <<project_json, preview, backend_f>>
              ELSE /\ raised' = FALSE
                   /\ project_json' = raw2
                   /\ backend_f' = loads_project(raw2).playhead_f
                   /\ preview' = prev

\* cmd_json.input -> on_cmd
Invoke(cmd, clip_id) ==
    /\ steps < MaxSteps
    /\ steps' = steps + 1
    /\ last_cmd' = <<cmd>>
    /\ UNCHANGED uivars
    /\ Answer(<<cmd>>, project_json, clip_id)

SetPlayhead ==
    \E f \in FrameChoices :
        Invoke([NoCmd EXCEPT !.type = "SET_PLAYHEAD", !.frame = f], None)

Screenshot ==
    Invoke([NoCmd EXCEPT !.type = "SCREENSHOT"], None)

SelectClip ==
    \E cid \in ClipIdChoices :
        Invoke([NoCmd EXCEPT !.type = "SELECT_CLIP", !.clip_id = cid], None)

\* a media_id no MediaItem has comes with one track and start only, and a
\* negative start with the track V1 only
AddClip ==
    /\ steps < MaxSteps
    /\ Len(P.clips) < MaxClips
    /\ \E mid \in MediaIdChoices, tr \in AddTrackChoices, st \in StartChoices :
        LET clip_id == fresh_id("c_", ids_of(P.clips)) IN
        /\ mid \in ids_of(P.media) \/ (tr = V1 /\ st = 2)
        /\ st = 2 \/ tr = V1
        /\ Invoke([NoCmd EXCEPT !.type = "ADD_CLIP", !.media_id = mid,
                             !.track_id = tr, !.start_f = st], clip_id)

\* a clip_id no clip has comes with one track and start only, and a
\* negative start with the track V2 only
MoveClip ==
    /\ steps < MaxSteps
    /\ \E cid \in TargetIdChoices, tr \in MoveTrackChoices, st \in StartChoices :
        /\ cid \in ids_of(P.clips) \/ (tr = V2 /\ st = 2)
        /\ st = 2 \/ tr = V2
        /\ Invoke([NoCmd EXCEPT !.type = "MOVE_CLIP", !.clip_id = cid,
                             !.track_id = tr, !.start_f = st], None)

RazorCut ==
    /\ steps < MaxSteps
    /\ Len(P.clips) < MaxClips
    /\ \E cid \in TargetIdChoices, k \in CutChoices :
        /\ cid \in ids_of(P.clips) \/ k = 60
        /\ Invoke([NoCmd EXCEPT !.type = "RAZOR_CUT", !.clip_id = cid,
                             !.cut_offset_f = k], None)

\* commands on_cmd has no branch for
DeleteSelected ==
    Invoke([NoCmd EXCEPT !.type = "DELETE_SELECTED"], None)

SetFps ==
    \E fps \in FpsChoices :
        Invoke([NoCmd EXCEPT !.type = "SET_FPS", !.fps = fps], None)

UnknownCmd ==
    \E t \in UnknownTypes :
        Invoke([NoCmd EXCEPT !.type = t], None)

MalformedCmd ==
    \E cmd \in MalformedChoices :
        Invoke(cmd, None)

\* The place of a file in the order the files are uploaded in: the long
\* video, the one-frame video, the image, the short audio, the long audio,
\* and the video whose probe fails
upload_rank(m) ==
    CASE m.kind = "video" /\ m.frames = <<200>> -> 1
      [] m.kind = "video" /\ m.frames = <<1>> -> 2
      [] m.kind = "image" -> 3
      [] m.kind = "audio" /\ m.frames = <<0>> -> 4
      [] m.kind = "audio" -> 5
      [] OTHER -> 6

\* uploader.upload -> on_upload; a file is uploaded at most once, and the
\* files in the order of upload_rank
Upload ==
    /\ steps < MaxSteps
    /\ Len(P.media) < MaxMedia
    /\ \E kind \in {"video", "image", "audio"} :
       \E probe \in ProbeChoices(kind) :
          LET id == fresh_id("id_", ids_of(P.media))
              files == <<[id |-> id, kind |-> kind, probe |-> probe]>>
          IN  /\ \A j \in DOMAIN P.media :
                    upload_rank(P.media[j]) < upload_rank(media_item(files[1], P))
              /\ steps < MaxSteps
              /\ steps' = steps + 1
              /\ last_cmd' = <<[NoCmd EXCEPT !.type = "UPLOAD"]>>
              /\ Uploaded(files, project_json)
              /\ UNCHANGED <<created, uivars>>

Next ==
    \/ SetPlayhead
    \/ Screenshot
    \/ SelectClip
    \/ AddClip
    \/ MoveClip
    \/ RazorCut
    \/ DeleteSelected
    \/ SetFps
    \/ UnknownCmd
    \/ MalformedCmd
    \/ Upload

Spec == Init /\ [][Next]_vars

----------------------------------------------------------------------------
\* The UI script and the event bindings. A handler of the script runs to its
\* end before anything else does; sendCmd hands the command text and the
\* project field as it is then to the backend, and the backend's answer is
\* written to the project field when it arrives.

\* JSON.parse and JSON.stringify: null is the script's null, held as None
safeParse(raw) == loads_project(raw)
stringify(p) == dumps_project(p)

getMaxEndFrame(p) ==
    LET ends == {p.clips[i].start_f + Max(1, p.clips[i].out_f - p.clips[i].in_f) :
                     i \in DOMAIN p.clips}
    IN  IF ends = {} THEN 0 ELSE CHOOSE e \in ends : \A x \in ends : x <= e

\* Math.round(x / ppf) for x >= 0 and the default px_per_frame
js_round_div(x, ppf) == (2 * x + ppf) \div (2 * ppf)

\* what one sendCmd hands to on_cmd: raw_cmd, raw_proj, and the random clip id
\* on_cmd will draw if the command adds a clip
Request(cmd, clip_id) ==
    [cmd |-> cmd, raw_proj |-> project_json, clip_id |-> clip_id]

RECURSIVE apply_all(_, _)
apply_all(cmds, raw) ==
    IF cmds = <<>> THEN raw
    ELSE apply_all(Tail(cmds),
                   IF on_cmd_raises(<<Head(cmds)>>, raw) THEN raw
                   ELSE on_cmd(<<Head(cmds)>>, raw, None))

\* sendCmd for each command of cmds, in order
sendCmd(cmds) ==
    /\ inflight' = inflight \o [i \in DOMAIN cmds |-> Request(cmds[i], None)]
    /\ serial' = apply_all(cmds, serial)

SetPlayheadCmd(f) == [NoCmd EXCEPT !.type = "SET_PLAYHEAD", !.frame = f]

UIStep ==
    /\ steps < MaxEvents
    /\ steps' = steps + 1

\* on_cmd runs on the oldest command sent and its answer arrives
Answered ==
    /\ inflight # <<>>
    /\ LET r == Head(inflight)
       IN  /\ inflight' = Tail(inflight)
           /\ last_cmd' = <<r.cmd>>
           /\ Answer(<<r.cmd>>, r.raw_proj, r.clip_id)
    /\ UNCHANGED <<serial, playing, activeTool, stopped>>

Respond ==
    /\ UIStep
    /\ Answered

\* the answers to the commands still pending after the last UI event
Drain ==
    /\ steps = MaxEvents
    /\ Answered
    /\ UNCHANGED steps

\* a file is dropped on the uploader while no command is pending, and the
\* user waits for on_upload's answer
UIUpload ==
    /\ UIStep
    /\ inflight = <<>>
    /\ Len(safeParse(project_json).media) < MaxMedia
    /\ \E probe \in {<<>>, <<3>>} :
          LET files == <<[id |-> fresh_id("id_", ids_of(safeParse(project_json).media)),
                          kind |-> "video", probe |-> probe]>>
          IN  /\ Uploaded(files, project_json)
              /\ serial' = on_upload(files, serial)
    /\ last_cmd' = <<[NoCmd EXCEPT !.type = "UPLOAD"]>>
    /\ UNCHANGED <<inflight, playing, activeTool, created, stopped>>

\* track.ondrop
TrackDrop ==
    /\ UIStep
    /\ Len(safeParse(serial).clips) < MaxClips
    /\ \E mediaId \in ids_of(safeParse(project_json).media), trackId \in {V1, A1} :
          LET clip_id == fresh_id("c_", ids_of(safeParse(serial).clips)
                                         \cup ids_of(safeParse(project_json).clips))
              cmd == [NoCmd EXCEPT !.type = "ADD_CLIP", !.media_id = mediaId,
                                   !.track_id = trackId, !.start_f = 0]
          IN  /\ inflight' = Append(inflight, Request(cmd, clip_id))
              /\ serial' = IF on_cmd_raises(<<cmd>>, serial) THEN serial
                           ELSE on_cmd(<<cmd>>, serial, clip_id)
    /\ UNCHANGED <<project_json, last_cmd, playing, activeTool, raised, created, preview, stopped, backend_f>>

\* toolsPanel click
ToolClick ==
    /\ UIStep
    /\ \E tool \in {"selection", "razor"} :
          /\ tool # activeTool
          /\ activeTool' = tool
    /\ UNCHANGED <<project_json, last_cmd, inflight, serial, playing, raised, created, preview, stopped, backend_f>>

\* btnPlay click -> togglePlay
TogglePlay ==
    /\ UIStep
    /\ playing' = ~playing
    /\ LET p == safeParse(project_json)
       IN  IF ~playing
           THEN /\ project_json' =
                       IF p.playhead_f >= getMaxEndFrame(p)
                       THEN stringify([p EXCEPT !.playhead_f = 0])
                       ELSE project_json
                /\ stopped' = <<>>
                /\ UNCHANGED <<inflight, serial>>
           ELSE /\ sendCmd(<<SetPlayheadCmd(p.playhead_f)>>)
                /\ stopped' = <<p.playhead_f>>
                /\ UNCHANGED project_json
    /\ UNCHANGED <<last_cmd, activeTool, raised, created, preview, backend_f>>

\* The playhead after n frame times of playbackLoop's while loop, and whether
\* the loop hit the end of the last clip
RECURSIVE advance(_, _, _)
advance(f, maxEnd, n) ==
    IF n = 0 THEN [playhead_f |-> f, ended |-> FALSE]
    ELSE IF f < maxEnd THEN advance(f + 1, maxEnd, n - 1)
    ELSE [playhead_f |-> f, ended |-> TRUE]

\* One animation frame of playbackLoop: n frame times have accumulated, and
\* due tells whether more than 120 ms have passed since the last sync
playbackLoop ==
    /\ UIStep
    /\ playing
    /\ \E n \in 0..2, due \in BOOLEAN :
          LET p == safeParse(project_json)
              a == advance(p.playhead_f, getMaxEndFrame(p), n)
              updated == a.playhead_f # p.playhead_f
          IN  /\ playing' = ~a.ended
              /\ stopped' = IF a.ended THEN <<a.playhead_f>> ELSE stopped
              /\ project_json' =
                     IF updated THEN stringify([p EXCEPT !.playhead_f = a.playhead_f])
                     ELSE project_json
              /\ IF updated /\ due
                 THEN sendCmd(<<SetPlayheadCmd(a.playhead_f)>>)
                 ELSE UNCHANGED <<inflight, serial>>
    /\ UNCHANGED <<last_cmd, activeTool, raised, created, preview, backend_f>>

\* clipEl mousedown on a clip of the project field, cutPx pixels from its left
ClipMouseDown ==
    /\ UIStep
    /\ \E i \in DOMAIN safeParse(project_json).clips, cutPx \in {2, 6, 95} :
          LET p == safeParse(project_json)
              c == p.clips[i]
              durF == Max(1, c.out_f - c.in_f)
              widthPx == Max(6, js_round_div(durF * p.px_per_frame, 1))
              cutOffF == Max(1, Min(durF - 1, js_round_div(cutPx, p.px_per_frame)))
              stop == IF playing THEN <<SetPlayheadCmd(p.playhead_f)>> ELSE <<>>
              select == <<[NoCmd EXCEPT !.type = "SELECT_CLIP", !.clip_id = c.id]>>
              razor == IF activeTool = "razor" /\ ~(cutPx < 5 \/ cutPx > widthPx - 5)
                       THEN <<[NoCmd EXCEPT !.type = "RAZOR_CUT", !.clip_id = c.id,
                                            !.cut_offset_f = cutOffF]>>
                       ELSE <<>>
          IN  /\ razor = <<>> \/ Len(safeParse(serial).clips) < MaxClips
              /\ sendCmd(stop \o select \o razor)
              /\ stopped' = IF playing THEN <<p.playhead_f>> ELSE stopped
    /\ playing' = FALSE
    /\ UNCHANGED <<project_json, last_cmd, activeTool, raised, created, preview, backend_f>>

NextUI ==
    \/ Respond
    \/ UIUpload
    \/ TrackDrop
    \/ ToolClick
    \/ TogglePlay
    \/ playbackLoop
    \/ ClipMouseDown

SpecUI == Init /\ [][NextUI]_vars

\* The UI with a backend that answers every command sent to it
NextPlay ==
    \/ NextUI
    \/ Drain

\* A step of NextPlay takes the oldest command off inflight exactly when it
\* is a step of Respond or Drain
Delivery ==
    /\ inflight # <<>>
    /\ inflight' = Tail(inflight)

SpecPlay == Init /\ [][NextPlay]_vars /\ WF_inflight(Delivery)

----------------------------------------------------------------------------
\* Vocabulary of the properties

Clips == P.clips
Media == P.media
Selected == P.selected_clip_id

\* the category the handlers read off a track id: its first character
track_category(track_id) ==
    IF startswith(track_id, "V") THEN "video"
    ELSE IF startswith(track_id, "A") THEN "audio"
    ELSE "none"

\* the step just taken was on_cmd handling a command of type t
Handled(t) == steps' = steps + 1 /\ last_cmd'[1].type = t
Cmd == last_cmd'[1]

\* the latest invocation handled a command of type t
Last(t) == last_cmd # <<>> /\ last_cmd[1].type = t

\* RAZOR_CUT: the clip the command names in the project it is applied to,
\* and the two clips the handler appends
Target == find_clip(P, Cmd.clip_id)[1]
First == Clips'[Len(Clips') - 1]
Second == Clips'[Len(Clips')]
RazorHit == Handled("RAZOR_CUT") /\ find_clip(P, Cmd.clip_id) # <<>>

----------------------------------------------------------------------------
\* C1: all clips of the project have pairwise distinct ids.
C1_DistinctClipIds ==
    \A i, j \in DOMAIN Clips : i # j => Clips[i].id # Clips[j].id

\* C2: selected_clip_id is None or the id of a clip of the project.
C2_SelectedExists ==
    Selected = None \/ Selected \in ids_of(Clips)

\* C3: every clip has out_f > in_f, a duration of at least one frame.
C3_PositiveDuration ==
    \A i \in DOMAIN Clips : Clips[i].out_f > Clips[i].in_f

\* C4: every clip's media_id is the id of a MediaItem of the project.
C4_MediaRefs ==
    \A i \in DOMAIN Clips : Clips[i].media_id \in ids_of(Media)

C4_Witness ==
    /\ Last("UPLOAD")
    /\ Len(Media) = 2
    /\ \E i, j \in DOMAIN Clips : Len(Clips[i].id) = 2 /\ Len(Clips[j].id) = 3

\* C5: video and image clips are on video tracks only, audio clips on audio
\* tracks only.
C5_KindMatchesTrack ==
    \A i \in DOMAIN Clips :
        /\ Clips[i].kind \in {"video", "image"} => track_category(Clips[i].track_id) = "video"
        /\ Clips[i].kind = "audio" => track_category(Clips[i].track_id) = "audio"

\* C6: commands are strictly serialized: each is applied to the Project the
\* previous one produced and nothing else writes the Project, so once every
\* command sent has been answered the project field holds what the commands
\* yield applied one after another.
C6_Serialized ==
    inflight = <<>> => project_json = serial

\* C7: RAZOR_CUT of a clip of duration D >= 2 at an offset k in 1..D-1 yields
\* two clips whose durations sum to D and whose timeline ranges and source
\* ranges tile those of the original clip, with no gap and no overlap.
C7_RazorTiles ==
    [][(/\ RazorHit
        /\ Target.out_f - Target.in_f >= 2
        /\ 1 <= Cmd.cut_offset_f
        /\ Cmd.cut_offset_f <= Target.out_f - Target.in_f - 1)
       => LET D == Target.out_f - Target.in_f
              k == Cmd.cut_offset_f
          IN  /\ (First.out_f - First.in_f) + (Second.out_f - Second.in_f) = D
              /\ First.start_f = Target.start_f
              /\ Second.start_f = Target.start_f + k
              /\ First.out_f - First.in_f = k
              /\ Second.out_f - Second.in_f = D - k
              /\ First.in_f = Target.in_f
              /\ First.out_f = Second.in_f
              /\ Second.out_f = Target.out_f]_vars

C7_Witness ==
    /\ Last("RAZOR_CUT")
    /\ last_cmd[1].cut_offset_f = 60
    /\ Len(Clips) >= 2
    /\ Clips[Len(Clips)].id = Append(last_cmd[1].clip_id, "_b")
    /\ Clips[Len(Clips)].in_f = 60
    /\ Clips[Len(Clips)].out_f = 125

\* C8: RAZOR_CUT of an existing clip with effective offset k leaves the first
\* clip its id, start_f and in_f and sets its out_f to in_f + k; the second
\* clip is a new one at start_f + k with source range [in_f + k, out_f) and
\* the same media_id, track_id and kind; the first clip is selected.
C8_RazorResult ==
    [][RazorHit
       => LET k == Max(1, Min(clip_duration_frames(Target) - 1, Cmd.cut_offset_f))
          IN  /\ First.id = Target.id
              /\ First.start_f = Target.start_f
              /\ First.in_f = Target.in_f
              /\ First.out_f = Target.in_f + k
              /\ Second.id # Target.id
              /\ Second.start_f = Target.start_f + k
              /\ Second.in_f = Target.in_f + k
              /\ Second.out_f = Target.out_f
              /\ Second.media_id = Target.media_id
              /\ Second.track_id = Target.track_id
              /\ Second.kind = Target.kind
              /\ First.media_id = Target.media_id
              /\ First.track_id = Target.track_id
              /\ First.kind = Target.kind
              /\ Selected' = Target.id]_vars

C8_Witness ==
    /\ Last("RAZOR_CUT")
    /\ Len(Clips) = 3
    /\ Selected = last_cmd[1].clip_id
    /\ Clips[2].id = Selected
    /\ Clips[3].id = Append(Selected, "_b")
    /\ Clips[3].start_f = Clips[2].start_f + 1
    /\ Clips[1].id # Selected

\* C9: the offset RAZOR_CUT cuts at is clamped into [1, duration - 1], with
\* duration = out_f - in_f of the target clip.
C9_OffsetClamped ==
    [][RazorHit
       => LET k == Second.start_f - First.start_f
          IN  1 <= k /\ k <= (Target.out_f - Target.in_f) - 1]_vars

\* C10: MOVE_CLIP or RAZOR_CUT naming a clip id no clip has leaves the project
\* as it was; RAZOR_CUT of an existing clip commits both resulting clips.
C10_MissingClipRejected ==
    [][/\ (/\ (Handled("MOVE_CLIP") \/ Handled("RAZOR_CUT"))
           /\ Cmd.clip_id \notin ids_of(Clips))
          => /\ Clips' = Clips
             /\ Selected' = Selected
             /\ P'.playhead_f = P.playhead_f
             /\ Media' = Media
             /\ project_json' = project_json
       /\ (/\ Handled("RAZOR_CUT")
           /\ Cmd.clip_id \in ids_of(Clips))
          => /\ Len(Clips') >= 2
             /\ First.id = Cmd.clip_id
             /\ Second.id = Append(Cmd.clip_id, "_b")
             /\ Media' = Media
             /\ P'.playhead_f = P.playhead_f]_vars

C10_Witness ==
    /\ Last("RAZOR_CUT")
    /\ last_cmd[1].clip_id = Ghost
    /\ Len(Clips) = 2
    /\ Selected = Clips[1].id

----------------------------------------------------------------------------
\* ADD_CLIP: the MediaItem and the track the command names in the project it
\* is applied to, and the clip the handler appends

AddMedia == find_media(P, Cmd.media_id)
AddTrack == get(Cmd.track_id, V1)
NewClip == Clips'[Len(Clips')]
LastMedia == find_media(P, last_cmd[1].media_id)

\* media of this kind does not go on a track of this id's category
incompatible(kind, track_id) ==
    \/ track_category(track_id) = "audio" /\ kind # "audio"
    \/ track_category(track_id) = "video" /\ kind = "audio"

\* ADD_CLIP of a MediaItem of the project on a track that takes its kind
AddAccepted ==
    /\ Handled("ADD_CLIP")
    /\ AddMedia # <<>>
    /\ Cmd.track_id # None
    /\ ~incompatible(AddMedia[1].kind, AddTrack)

\* C11: ADD_CLIP leaves the clip list and selected_clip_id as they were when
\* media_id names no MediaItem, or the media is not audio and the track is an
\* audio track, or the media is audio and the track is a video track.
C11_AddRejected ==
    [][(/\ Handled("ADD_CLIP")
        /\ (AddMedia = <<>> \/ incompatible(AddMedia[1].kind, AddTrack)))
       => /\ Clips' = Clips
          /\ Selected' = Selected]_vars

C11_Witness ==
    /\ Last("ADD_CLIP")
    /\ last_cmd[1].track_id = A1
    /\ LastMedia # <<>>
    /\ LastMedia[1].kind = "video"
    /\ Len(Clips) = 1
    /\ Clips[1].track_id = V1
    /\ Selected = Clips[1].id

\* C12: ADD_CLIP of a video MediaItem with frame count F, on a project with
\* fps > 0, creates a clip with in_f = 0 and out_f = min(F, 5 * fps).
C12_VideoCapped ==
    [][(/\ Handled("ADD_CLIP")
        /\ AddMedia # <<>>
        /\ AddMedia[1].kind = "video"
        /\ AddMedia[1].frames # <<>>
        /\ P.fps > 0
        /\ Cmd.track_id # None
        /\ track_category(AddTrack) # "audio")
       => /\ Len(Clips') = Len(Clips) + 1
          /\ NewClip.media_id = Cmd.media_id
          /\ NewClip.in_f = 0
          /\ NewClip.out_f = Min(AddMedia[1].frames[1], 5 * P.fps)
          /\ NewClip.out_f - NewClip.in_f = Min(AddMedia[1].frames[1], 5 * P.fps)]_vars

C12_Witness ==
    /\ Last("ADD_CLIP")
    /\ LastMedia # <<>>
    /\ LastMedia[1].kind = "video"
    /\ LastMedia[1].frames = <<200>>
    /\ Len(Clips) >= 1
    /\ Clips[Len(Clips)].id = Selected
    /\ Clips[Len(Clips)].media_id = last_cmd[1].media_id
    /\ Clips[Len(Clips)].in_f = 0
    /\ Clips[Len(Clips)].out_f = 125

\* C13: ADD_CLIP of an image or audio MediaItem with frame count F creates a
\* clip of duration F, with no 5 second cap; ADD_CLIP of a MediaItem of any
\* kind with no frame count creates a clip of duration 2 * fps; in both cases
\* in_f = 0 and out_f = in_f + duration.
C13_UncappedDuration ==
    [][AddAccepted
       => /\ Len(Clips') = Len(Clips) + 1
          /\ NewClip.in_f = 0
          /\ (AddMedia[1].kind # "video" /\ AddMedia[1].frames # <<>>)
                => NewClip.out_f = NewClip.in_f + AddMedia[1].frames[1]
          /\ AddMedia[1].frames = <<>>
                => NewClip.out_f = NewClip.in_f + 2 * P.fps]_vars

\* C13 as amended: the duration of the clip of an image or audio MediaItem
\* with frame count F is max(1, F).
C13_UncappedDurationAtLeastOne ==
    [][AddAccepted
       => /\ Len(Clips') = Len(Clips) + 1
          /\ NewClip.in_f = 0
          /\ (AddMedia[1].kind # "video" /\ AddMedia[1].frames # <<>>)
                => NewClip.out_f = NewClip.in_f + Max(1, AddMedia[1].frames[1])
          /\ AddMedia[1].frames = <<>>
                => NewClip.out_f = NewClip.in_f + 2 * P.fps]_vars

C13_Witness ==
    /\ Last("ADD_CLIP")
    /\ LastMedia # <<>>
    /\ LastMedia[1].kind = "audio"
    /\ LastMedia[1].frames = <<150>>
    /\ Len(Clips) >= 1
    /\ Clips[Len(Clips)].id = Selected
    /\ Clips[Len(Clips)].kind = "audio"
    /\ Clips[Len(Clips)].in_f = 0
    /\ Clips[Len(Clips)].out_f = 150

\* C14: an ADD_CLIP that is accepted appends exactly one clip, with a new id,
\* at the end of the clip list, leaves the clips that were there as they were
\* and in their order, and selects the new clip.
C14_AddAppends ==
    [][AddAccepted
       => /\ Len(Clips') = Len(Clips) + 1
          /\ SubSeq(Clips', 1, Len(Clips)) = Clips
          /\ NewClip.id \notin ids_of(Clips)
          /\ Selected' = NewClip.id]_vars

C14_Witness ==
    /\ Last("ADD_CLIP")
    /\ Len(Clips) = 3
    /\ Selected = Clips[3].id
    /\ Clips[3].media_id = last_cmd[1].media_id
    /\ Clips[3].track_id = last_cmd[1].track_id
    /\ Clips[1].id # Selected
    /\ Clips[2].id = Append(Clips[1].id, "_b")

----------------------------------------------------------------------------
\* MOVE_CLIP: the position in the clip list of the clip the handler moves,
\* the first one with the id the command names

MoveHit == Handled("MOVE_CLIP") /\ Cmd.clip_id \in ids_of(Clips)
MoveIdx == MinOf({i \in DOMAIN Clips : Clips[i].id = Cmd.clip_id})

\* C15: MOVE_CLIP of an existing clip to a track of a category that does not
\* take the clip's kind sets the clip's start_f to the requested position
\* (clamped to 0) and leaves its track_id as it was; when the track's category
\* takes the clip's kind, start_f and track_id are both set.
C15_MoveTrackRule ==
    [][(/\ MoveHit
        /\ Cmd.track_id \notin {None, Absent, <<>>})
       => LET c == Clips[MoveIdx]
              c2 == Clips'[MoveIdx]
          IN  /\ Len(Clips') = Len(Clips)
              /\ c2.start_f = Max(0, Cmd.start_f)
              /\ incompatible(c.kind, Cmd.track_id) => c2.track_id = c.track_id
              /\ (/\ track_category(Cmd.track_id) \in {"video", "audio"}
                  /\ ~incompatible(c.kind, Cmd.track_id))
                    => c2.track_id = Cmd.track_id
              /\ c2 = [c EXCEPT !.start_f = c2.start_f, !.track_id = c2.track_id]
              /\ \A j \in DOMAIN Clips : j # MoveIdx => Clips'[j] = Clips[j]]_vars

C15_Witness ==
    /\ Last("MOVE_CLIP")
    /\ last_cmd[1].track_id = A1
    /\ last_cmd[1].start_f = 2
    /\ \E i \in DOMAIN Clips :
          /\ Clips[i].id = last_cmd[1].clip_id
          /\ Clips[i].kind = "video"
          /\ Clips[i].track_id = V1
          /\ Clips[i].start_f = 2

\* C16: every clip's start_f is >= 0: ADD_CLIP and MOVE_CLIP clamp a negative
\* start to 0 and RAZOR_CUT yields no negative start_f.
C16_StartNonNegative ==
    \A i \in DOMAIN Clips : Clips[i].start_f >= 0

C16_Witness ==
    /\ Last("MOVE_CLIP")
    /\ last_cmd[1].start_f = -1
    /\ Len(Clips) = 2
    /\ Clips[1].id = last_cmd[1].clip_id
    /\ Clips[2].id = Append(Clips[1].id, "_b")
    /\ Clips[1].start_f = 0
    /\ Clips[2].start_f = 3

\* C17: DELETE_SELECTED, when selected_clip_id is the id of a clip, removes
\* that clip and sets selected_clip_id to None, leaving the other clips as
\* they were; when nothing is selected it changes nothing.
C17_DeleteSelected ==
    [][Handled("DELETE_SELECTED")
       => IF Selected \in ids_of(Clips)
          THEN /\ Clips' = SelectSeq(Clips, LAMBDA c : c.id # Selected)
               /\ Selected' = None
          ELSE Selected = None => project_json' = project_json]_vars

\* C18: SET_FPS sets the project's fps to the requested value, clamped to be
\* > 0, and leaves every clip's start_f, in_f and out_f as they were.
C18_SetFps ==
    [][Handled("SET_FPS")
       => /\ P'.fps > 0
          /\ Cmd.fps > 0 => P'.fps = Cmd.fps
          /\ Len(Clips') = Len(Clips)
          /\ \A i \in DOMAIN Clips :
                /\ Clips'[i].start_f = Clips[i].start_f
                /\ Clips'[i].in_f = Clips[i].in_f
                /\ Clips'[i].out_f = Clips[i].out_f]_vars

\* C19: SET_PLAYHEAD with a frame number sets playhead_f to max(0, frame) and
\* changes nothing else of the project; playhead_f >= 0 in every reachable
\* state.
C19_SetPlayhead ==
    /\ [](P.playhead_f >= 0)
    /\ [][(Handled("SET_PLAYHEAD") /\ Cmd.shape = "object")
          => /\ P'.playhead_f = Max(0, Cmd.frame)
             /\ Clips' = Clips
             /\ Media' = Media
             /\ Selected' = Selected
             /\ P'.fps = P.fps
             /\ P'.px_per_frame = P.px_per_frame]_vars

C19_Witness ==
    /\ Last("SET_PLAYHEAD")
    /\ last_cmd[1].frame = -1
    /\ P.playhead_f = 0
    /\ Len(Clips) = 2
    /\ Selected = Clips[1].id

\* C20: a command whose type is none of the command names leaves every field
\* of the project as it was.
CommandNames ==
    {"SET_PLAYHEAD", "SELECT_CLIP", "DELETE_SELECTED", "ADD_CLIP", "MOVE_CLIP",
     "RAZOR_CUT", "SET_FPS", "SCREENSHOT"}

C20_UnknownNoOp ==
    [][(/\ steps' = steps + 1
        /\ Cmd.type \notin CommandNames \cup {"UPLOAD"})
       => /\ project_json' = project_json
          /\ P' = P]_vars

C20_Witness ==
    /\ Last("FOO")
    /\ P.playhead_f = 2
    /\ Len(Clips) = 1
    /\ Selected = Clips[1].id

----------------------------------------------------------------------------
\* a text that is no command: no JSON, no object, or an object of a command
\* type with a field of the wrong type
Malformed(cmd) ==
    \/ cmd.shape # "object"
    \/ cmd.type = "ADD_CLIP" /\ cmd.track_id = None

\* C21: a malformed command text (no JSON, JSON that is no object, an object
\* of a known type with a field of the wrong type such as a non-numeric frame
\* or a null track id) is a silent no-op: on_cmd returns the project as it
\* was and does not raise.
C21_MalformedNoOp ==
    [][(/\ steps' = steps + 1
        /\ Malformed(Cmd))
       => /\ project_json' = project_json
          /\ ~raised']_vars


\* Projects as Python holds them: the default one, the one the handlers work
\* on, and that one with its selection cleared
PythonProjects ==
    {default_project, P, CmdSelectClip(P, [NoCmd EXCEPT !.clip_id = None])}

VideoTracks == {V1, V2, <<"V", "3">>}
suffix(track_id) ==
    CASE track_id = V1 -> 1 [] track_id = V2 -> 2 [] track_id = <<"V", "3">> -> 3

Candidates == preview_candidates(P)
Top == preview_top(P)

\* C22: when at least one video or image clip covers the playhead, the clip
\* the preview resolver selects is on the highest-priority video track among
\* the candidates (V3 over V2 over V1): no candidate is on a video track with
\* a greater numeric suffix than the track of the selected clip.
C22_HighestVideoTrack ==
    Candidates # <<>> =>
        \A i \in DOMAIN Candidates :
            Candidates[i].track_id \in VideoTracks =>
                /\ Top.track_id \in VideoTracks
                /\ suffix(Top.track_id) >= suffix(Candidates[i].track_id)

\* overlapping clips on V1 and V2, the V1 clip first in the list: the V2 clip
\* is the one selected
C22_Witness ==
    /\ Len(Candidates) >= 2
    /\ Candidates[1].track_id = V1
    /\ Candidates[2].track_id = V2
    /\ Top = Candidates[2]

\* the position of the clip named id in the order of creation
created_at(id) == MinOf({k \in DOMAIN created : created[k] = id})

\* C23: among candidate clips on tracks of equal priority the preview
\* resolver selects the one created earliest (by ADD_CLIP or RAZOR_CUT),
\* after any sequence of commands: no candidate of the selected clip's
\* priority was created before the selected clip.
C23_TieByCreation ==
    Candidates # <<>> =>
        \A i \in DOMAIN Candidates :
            (/\ track_priority(Candidates[i].track_id) = track_priority(Top.track_id)
             /\ Candidates[i].id # Top.id)
            => created_at(Top.id) < created_at(Candidates[i].id)

\* the clip's range [start_f, start_f + duration) holds the playhead, the
\* duration being out_f - in_f
covers_playhead(c) ==
    /\ c.start_f <= P.playhead_f
    /\ P.playhead_f < c.start_f + (c.out_f - c.in_f)

\* C24: the preview candidates are exactly the clips of kind video or image
\* whose range [startFrame, startFrame + duration) contains the playhead;
\* audio clips are never candidates; without a candidate the preview is
\* empty.
C24_Candidates ==
    /\ Candidates = SelectSeq(Clips, LAMBDA c : c.kind \in {"video", "image"}
                                                /\ covers_playhead(c))
    /\ \A i \in DOMAIN Candidates : Candidates[i].kind # "audio"
    /\ Candidates = <<>> =>
           \A decode_ok \in BOOLEAN : compute_preview_uri(P, decode_ok) = <<>>

\* what the decoding collaborator is asked for when Top is the selected clip
Requested ==
    IF Top.kind = "video"
    THEN <<"video", Top.media_id, Top.in_f + (P.playhead_f - Top.start_f)>>
    ELSE <<"image", Top.media_id>>

\* C25: for a selected video clip the frame requested from the decoder is
\* in_f + (playhead_f - start_f); for a selected image clip no frame index is
\* computed and the image itself is the visible frame. A preview that shows
\* something shows just that.
C25_MediaFrame ==
    (/\ Candidates # <<>>
     /\ find_media(P, Top.media_id) # <<>>)
    => /\ get_preview_image(P, TRUE) = Requested
       /\ preview # <<>> => preview = <<"data:image/png">> \o Requested

\* the preview shows a frame of the second half of a cut video clip, which
\* starts inside its media
C25_Witness ==
    /\ Candidates # <<>>
    /\ Top.kind = "video"
    /\ Top.in_f > 0
    /\ P.playhead_f > Top.start_f
    /\ preview = <<"data:image/png", "video", Top.media_id,
                   Top.in_f + (P.playhead_f - Top.start_f)>>

\* a clip with resolved media is selected for the preview, yet the preview
\* is empty: the decoding collaborator failed
DecoderFailed ==
    /\ Candidates # <<>>
    /\ find_media(P, Top.media_id) # <<>>
    /\ preview = <<>>

\* C26: a failure of the decoding collaborator during preview resolution
\* yields the empty preview instead of an error, and the Project returned is
\* exactly the one the command produced: a handler run on a well-formed
\* command never raises, whatever the decoder does, its Project is the
\* command's result, and its preview is the frame or empty.
C26_DecoderFailure ==
    [][(/\ steps' = steps + 1
        /\ ~on_cmd_raises(last_cmd', project_json))
       => /\ ~raised'
          /\ Cmd.type # "UPLOAD" =>
                project_json' = on_cmd(last_cmd', project_json,
                                       fresh_id("c_", ids_of(Clips)))
          /\ preview' \in {<<>>, compute_preview_uri(P', TRUE)}]_vars

\* SET_PLAYHEAD has moved the playhead to frame 2 inside a clip and the
\* decoder failed: the snapshot holds the new playhead, the preview is empty
C26_Witness ==
    /\ Last("SET_PLAYHEAD")
    /\ last_cmd[1].frame = 2
    /\ P.playhead_f = 2
    /\ DecoderFailed
    /\ ~raised

\* two of the values _uid("c_") can return in a run of on_cmd
UidChoices == {fresh_id("c_", ids_of(Clips)), <<"c_", "f">>}

without_new_id(raw) ==
    LET p == loads_project(raw)
    IN  [p EXCEPT !.selected_clip_id = <<"new">>,
                  !.clips[Len(p.clips)].id = <<"new">>]

TwoFiles ==
    <<[id |-> <<"id_", "8">>, kind |-> "video", probe |-> <<>>],
      [id |-> <<"id_", "9">>, kind |-> "audio", probe |-> <<1>>]>>

\* p2 is p with n MediaItems appended and nothing else changed
appends_media(p, p2, n) ==
    /\ Len(p2.media) = Len(p.media) + n
    /\ SubSeq(p2.media, 1, Len(p.media)) = p.media
    /\ p2.clips = p.clips
    /\ p2.playhead_f = p.playhead_f
    /\ p2.selected_clip_id = p.selected_clip_id
    /\ p2.fps = p.fps
    /\ p2.px_per_frame = p.px_per_frame

\* C29: no command handled by on_cmd adds, removes, reorders or modifies a
\* MediaItem or changes px_per_frame; on_upload appends one MediaItem per
\* uploaded file, also when its probe fails, and leaves the media there were,
\* the clips, the playhead and the selection as they are. (The upload step
\* hands over one file; two files are put to on_upload on every project.)
C29_MediaImmutable ==
    [][/\ (steps' = steps + 1 /\ Cmd.type # "UPLOAD")
          => /\ Media' = Media
             /\ P'.px_per_frame = P.px_per_frame
       /\ Handled("UPLOAD")
          => /\ appends_media(P, P', 1)
             /\ appends_media(P, loads_project(on_upload(TwoFiles, project_json)), 2)
             /\ on_upload(<<>>, project_json) = project_json]_vars

\* a second file was uploaded whose probe failed, into a project with a
\* clip, a selection and a moved playhead
C29_Witness ==
    /\ Last("UPLOAD")
    /\ Len(Media) = 2
    /\ Media[2].frames = <<>>
    /\ Len(Clips) >= 1
    /\ Selected # None
    /\ P.playhead_f = 2

\* The positions a clip covers: <<track, timeline frame, media, source
\* frame>> for each source frame of [in_f, out_f)
positions(c) ==
    {<<c.track_id, c.start_f + (j - c.in_f), c.media_id, j>> :
        j \in c.in_f .. (c.out_f - 1)}

covers_position(c, pos) ==
    /\ c.track_id = pos[1]
    /\ c.media_id = pos[3]
    /\ c.in_f <= pos[4]
    /\ pos[4] < c.out_f
    /\ pos[2] = c.start_f + (pos[4] - c.in_f)

\* how many of the clips cover the position
coverage(clips, pos) ==
    Cardinality({i \in DOMAIN clips : covers_position(clips[i], pos)})

\* C30: RAZOR_CUT leaves the multiset of covered (track, timeline frame,
\* media, source frame) positions as it is, whatever clip it names and at
\* whatever offset, so that it is the same after any sequence of cuts: a cut
\* never loses, duplicates or shifts coverage.
C30_CoverageKept ==
    [][Handled("RAZOR_CUT") =>
          \A pos \in UNION {positions(Clips[i]) : i \in DOMAIN Clips}
                     \cup UNION {positions(Clips'[i]) : i \in DOMAIN Clips'} :
              coverage(Clips', pos) = coverage(Clips, pos)]_vars

----------------------------------------------------------------------------
\* the Project on_cmd returns for RAZOR_CUT of the clip named id at offset k
razor_cut(id, k) ==
    loads_project(on_cmd(<<[NoCmd EXCEPT !.type = "RAZOR_CUT", !.clip_id = id,
                                         !.cut_offset_f = k]>>,
                         project_json, None))

\* how many clips of the list equal c
occurrences(clips, c) == Cardinality({j \in DOMAIN clips : clips[j] = c})

\* C31: RAZOR_CUT of an existing clip leaves every other clip present and
\* unchanged, makes the clip count grow by exactly one, and does not change
\* media, playhead_f, fps or px_per_frame; put to every clip of every
\* reachable project.
C31_RazorFrame ==
    \A id \in ids_of(Clips), k \in CutChoices :
        LET q == razor_cut(id, k)
            t == MinOf({i \in DOMAIN Clips : Clips[i].id = id})
            others == [i \in 1..(Len(Clips) - 1) |->
                          IF i < t THEN Clips[i] ELSE Clips[i + 1]]
        IN  /\ Len(q.clips) = Len(Clips) + 1
            /\ \A i \in DOMAIN others :
                   occurrences(others, others[i]) <= occurrences(q.clips, others[i])
            /\ q.media = Media
            /\ q.playhead_f = P.playhead_f
            /\ q.fps = P.fps
            /\ q.px_per_frame = P.px_per_frame

\* the playhead frames the preview is compared at: around the starts of the
\* clips and around a cut at offset 60
PreviewFrames == {0, 1, 2, 3, 59, 60, 61, 62}

\* what the preview resolver selects in p with the playhead at frame: <<>>,
\* an image, or a media id and source frame
visible(p, frame) == get_preview_image([p EXCEPT !.playhead_f = frame], TRUE)

\* C32: RAZOR_CUT does not change what is visible: at every playhead frame
\* the (media, source frame) the preview resolver selects after the cut is
\* the one it selected before, also when clips of the same track overlap the
\* cut clip; put to every clip of every reachable project.
C32_RazorKeepsVisible ==
    \A id \in ids_of(Clips), k \in CutChoices, frame \in PreviewFrames :
        visible(razor_cut(id, k), frame) = visible(P, frame)

\* the six tracks of the timeline
DefinedTracks ==
    {V1, V2, <<"V", "3">>, A1, <<"A", "2">>, <<"A", "3">>}

\* C33: in every reachable state every clip's track_id is one of the six
\* defined tracks V1, V2, V3, A1, A2, A3: no ADD_CLIP or MOVE_CLIP naming
\* another track id places a clip on it.
C33_DefinedTracks ==
    \A i \in DOMAIN Clips : Clips[i].track_id \in DefinedTracks

\* C34: whenever the preview resolver selects a video clip, the source frame
\* it requests lies inside the clip's source range:
\* in_f <= media frame < out_f.
C34_FrameInRange ==
    (/\ Candidates # <<>>
     /\ Top.kind = "video"
     /\ find_media(P, Top.media_id) # <<>>)
    => /\ Requested[1] = "video"
       /\ Top.in_f <= Requested[3]
       /\ Requested[3] < Top.out_f

----------------------------------------------------------------------------
\* the Project on_cmd returns for MOVE_CLIP of the clip named id
move_clip(id, tr, st) ==
    loads_project(on_cmd(<<[NoCmd EXCEPT !.type = "MOVE_CLIP", !.clip_id = id,
                                         !.track_id = tr, !.start_f = st]>>,
                         project_json, None))

\* q is p with the clip at position i given another start_f and possibly
\* another track_id, and nothing else changed
moved_only(p, q, i) ==
    /\ Len(q.clips) = Len(p.clips)
    /\ q.clips[i] = [p.clips[i] EXCEPT !.start_f = q.clips[i].start_f,
                                       !.track_id = q.clips[i].track_id]
    /\ \A j \in DOMAIN p.clips : j # i => q.clips[j] = p.clips[j]
    /\ q.selected_clip_id = p.selected_clip_id
    /\ q.playhead_f = p.playhead_f
    /\ q.media = p.media
    /\ q.fps = p.fps
    /\ q.px_per_frame = p.px_per_frame

\* C35: MOVE_CLIP of an existing clip changes only that clip's start_f and
\* possibly its track_id: its id, media_id, in_f, out_f and kind, every other
\* clip, the clip order, the selection, the playhead and the media stay as
\* they are; of several clips with the id only the first in the list is
\* moved. Holds of every MOVE_CLIP step, and of MOVE_CLIP put to every clip
\* of every reachable project.
C35_MoveFrame ==
    /\ [](\A id \in ids_of(Clips), tr \in MoveTrackChoices, st \in StartChoices :
             moved_only(P, move_clip(id, tr, st),
                        MinOf({i \in DOMAIN Clips : Clips[i].id = id})))
    /\ [][MoveHit => moved_only(P, P', MoveIdx)]_vars

\* MOVE_CLIP has moved the first of two clips to frame 2 while the second
\* one is selected
C35_Witness ==
    /\ Last("MOVE_CLIP")
    /\ Len(Clips) = 2
    /\ Clips[1].id = last_cmd[1].clip_id
    /\ Clips[1].start_f = 2
    /\ Clips[2].start_f = 0
    /\ Selected = Clips[2].id

----------------------------------------------------------------------------
\* C36: whenever UI playback stops, by a pause or at the end of the last
\* clip, the backend's playhead_f eventually equals the frame at which the
\* UI playhead stopped (a SET_PLAYHEAD carrying that frame reaches on_cmd),
\* unless playback is started again before.
C36_StopReachesBackend ==
    (stopped # <<>>) ~> (stopped = <<>> \/ stopped = <<backend_f>>)

====
